---- MODULE Spec2Model ----
(***************************************************************************)
(* Model of the metrics controller (src/src/controller.rs): the EventInfo   *)
(* value, MetricsController::new / start_metrics / stop_collecting, and the *)
(* MetricsWorker and Events collaborators the controller is built on.       *)
(* MetricsWorker and Events live in modules of the repository that are not  *)
(* part of src/; they are modelled from spec.md (sections 3, 4.2, 4.3).     *)
(***************************************************************************)
EXTENDS Integers, Sequences, FiniteSets, TLC

\* ------------------------------------------------------------------ bounds
\* API calls (start_metrics / stop_collecting) made by the host in one run.
MaxCalls == 3
\* Metrics recorded into the in-memory histogram set in one run.
MaxRecords == 2
\* Ticks the worker thread performs in one run.
MaxTicks == 2
\* Assignments to fields of EventInfo values in one run.
MaxEdits == 1

\* ------------------------------------------------------------- data model
\* Identity strings the host may pass (String; the empty string is allowed).
Strings == {"", "x"}

\* The ten fields of struct EventInfo.
FieldNames ==
  {"locale", "os", "os_version", "device", "arch", "app_name", "app_version",
   "app_update_channel", "app_build_id", "app_platform"}

\* Worker life cycle of spec.md 4.3.
WorkerStates == {"Idle", "Running", "Stopping", "Stopped"}

VARIABLES
  args,     \* the ten values the host passed to MetricsController::new, by parameter name
  active,   \* whether the host wants the controller active (FALSE: opted out)
  ev,       \* MetricsController.ev: the Events behind Arc<Mutex<..>>
  mw,       \* MetricsController.mw: the MetricsWorker
  lock,     \* holder of the Mutex around Events: "none", "caller" or "worker"
  pc,       \* caller thread: "ready", "recording", "joining" (blocked in quit) or "panicked"
  wpc,      \* worker thread: "none", "boundary", "locked", "persisted", "exited"
  calls,    \* API calls that have returned, in order, with their results
  disk,     \* what the persistence collaborator's read() would return
  sent,     \* metrics the telemetry server has acknowledged
  ticks,    \* ticks the worker thread has completed or abandoned
  refs,     \* which Events allocation the controller and each worker created refer to
  reads,    \* calls of the persistence collaborator's read() so far
  copy,     \* EventInfo values the host holds itself: one from EventInfo::new, then its clone
  edits     \* assignments made to pub fields of an EventInfo value

vars == <<args, active, ev, mw, lock, pc, wpc, calls, disk, sent, ticks, refs, reads, copy, edits>>

\* EventInfo::new: the i-th positional parameter initialises the field of the
\* parameter's own name.
EventInfo_new(locale, os, os_version, device, app_name, app_version, app_update_channel, app_build_id, app_platform, arch) ==
  [locale |-> locale,
   os |-> os,
   os_version |-> os_version,
   device |-> device,
   app_name |-> app_name,
   app_version |-> app_version,
   app_update_channel |-> app_update_channel,
   app_build_id |-> app_build_id,
   app_platform |-> app_platform,
   arch |-> arch]

\* A clone whose os and os_version initialisers are exchanged.
EventInfo_clone_swapped(self) ==
  [locale |-> self.locale,
   os |-> self.os_version,
   os_version |-> self.os,
   device |-> self.device,
   app_name |-> self.app_name,
   app_version |-> self.app_version,
   app_update_channel |-> self.app_update_channel,
   app_build_id |-> self.app_build_id,
   app_platform |-> self.app_platform,
   arch |-> self.arch]

\* EventInfo::clone: a new value built field by field from String::clone.
EventInfo_clone(self) ==
  [locale |-> self.locale,
   os |-> self.os,
   os_version |-> self.os_version,
   device |-> self.device,
   app_name |-> self.app_name,
   app_version |-> self.app_version,
   app_update_channel |-> self.app_update_channel,
   app_build_id |-> self.app_build_id,
   app_platform |-> self.app_platform,
   arch |-> self.arch]

\* Events::new(event_info): the shared state holding the context and an empty
\* in-memory histogram set (metrics are identified by their sequence number).
Events_new(event_info) ==
  [event_info |-> event_info, histograms |-> {}]

\* MetricsWorker::new(events): bound to the shared state, Idle, nothing on the
\* termination channel, no thread yet.
MetricsWorker_new ==
  [state |-> "Idle", quit_sent |-> FALSE]

\* A construction that also spawns the worker thread.
MetricsController_new_spawning(app_name, app_version, app_update_channel, app_build_id, app_platform, locale, device, arch, os, os_version) ==
  [ev |-> Events_new(EventInfo_new(locale, device, app_name, app_version,
                                   app_update_channel, app_build_id, app_platform,
                                   arch, os, os_version)),
   mw |-> [state |-> "Running", quit_sent |-> FALSE],
   refs |-> [controller |-> "events", workers |-> <<"events">>]]

\* MetricsController::new: passes its parameters to EventInfo::new in the order
\* written at lines 99-109, wraps the result in Events and binds a worker.
\* "events" names the one Arc<Mutex<Events>> allocated at line 110: the
\* controller keeps events.clone(), the one worker is given events itself.
MetricsController_new(app_name, app_version, app_update_channel, app_build_id, app_platform, locale, device, arch, os, os_version) ==
  [ev |-> Events_new(EventInfo_new(locale, device, app_name, app_version,
                                   app_update_channel, app_build_id, app_platform,
                                   arch, os, os_version)),
   mw |-> MetricsWorker_new,
   refs |-> [controller |-> "events", workers |-> <<"events">>]]

\* The state right after MetricsController::new(a...) returned.
Constructed(a, act) ==
  LET c == MetricsController_new(a.app_name, a.app_version, a.app_update_channel,
                                 a.app_build_id, a.app_platform, a.locale,
                                 a.device, a.arch, a.os, a.os_version)
  IN /\ args = a
     /\ active = act
     /\ ev = c.ev
     /\ mw = c.mw
     /\ lock = "none"
     /\ pc = "ready"
     /\ wpc = "none"
     /\ calls = <<>>
     /\ disk = {}
     /\ sent = {}
     /\ ticks = 0
     /\ refs = c.refs
     /\ reads = 0
     /\ copy = <<>>
     /\ edits = 0

Init ==
  \E a \in [FieldNames -> Strings], act \in BOOLEAN : Constructed(a, act)

\* The values of the unit tests' create_metrics_controller().
create_metrics_controller ==
  [app_name |-> "app", app_version |-> "1.0", app_update_channel |-> "default",
   app_build_id |-> "20160305", app_platform |-> "rust", locale |-> "en-us",
   device |-> "linux", arch |-> "1.2.3", os |-> "raspberry-pi", os_version |-> "arm"]

InitTest == Constructed(create_metrics_controller, TRUE)

\* ------------------------------------------------------------ operations
\* The record of a call that has returned.
Returned(op, ret) == [op |-> op, ret |-> ret]

\* A start_metrics that restores the persisted data by replacing the whole
\* shared state with a freshly built one, its context left empty.
start_metrics_reload ==
  /\ pc = "ready"
  /\ Len(calls) < MaxCalls
  /\ ev' = [Events_new(EventInfo_new("", "", "", "", "", "", "", "", "", "")) EXCEPT !.histograms = disk]
  /\ calls' = Append(calls, Returned("start_metrics", "true"))
  /\ UNCHANGED <<args, active, refs, reads, copy, edits, mw, lock, pc, wpc, disk, sent, ticks>>

\* A start_metrics that creates a worker of its own on the controller's shared
\* state, beside the one built by new.
start_metrics_second_worker ==
  /\ pc = "ready"
  /\ Len(calls) < MaxCalls
  /\ refs' = [refs EXCEPT !.workers = Append(@, refs.controller)]
  /\ calls' = Append(calls, Returned("start_metrics", "true"))
  /\ UNCHANGED <<args, active, reads, copy, edits, ev, mw, lock, pc, wpc, disk, sent, ticks>>

\* A start_metrics that builds a fresh worker (the call left commented out at
\* line 132), replacing the one the controller holds.
start_metrics_respawn ==
  /\ pc = "ready"
  /\ Len(calls) < MaxCalls
  /\ mw' = MetricsWorker_new
  /\ calls' = Append(calls, Returned("start_metrics", "true"))
  /\ UNCHANGED <<args, active, refs, reads, copy, edits, ev, lock, pc, wpc, disk, sent, ticks>>

\* MetricsController::start_metrics: the body is the literal `true`; it reads
\* and writes neither self.ev nor self.mw.
start_metrics ==
  /\ pc = "ready"
  /\ Len(calls) < MaxCalls
  /\ calls' = Append(calls, Returned("start_metrics", "true"))
  /\ UNCHANGED <<args, active, refs, reads, copy, edits, ev, mw, lock, pc, wpc, disk, sent, ticks>>

\* MetricsWorker::quit, the calling half: on a Running worker it puts the quit
\* signal on the channel (Running -> Stopping) and blocks in the join; on a
\* worker that is not Running there is nothing to signal or to join.
MetricsWorker_quit ==
  IF mw.state = "Running"
    THEN /\ mw' = [mw EXCEPT !.state = "Stopping", !.quit_sent = TRUE]
         /\ pc' = "joining"
    ELSE /\ mw' = mw
         /\ pc' = "ready"

\* A stop_collecting that takes the worker's join handle without looking at
\* whether a thread was ever spawned.
stop_collecting_unwrap ==
  /\ pc = "ready"
  /\ Len(calls) < MaxCalls
  /\ mw' = [mw EXCEPT !.quit_sent = TRUE]
  /\ pc' = IF wpc = "none" THEN "panicked" ELSE "joining"
  /\ UNCHANGED <<args, active, refs, reads, copy, edits, ev, lock, wpc, calls, disk, sent, ticks>>

\* A stop_collecting that also deletes the histograms held in memory (the TODO
\* of lines 139-140).
stop_collecting_delete ==
  /\ pc = "ready"
  /\ Len(calls) < MaxCalls
  /\ MetricsWorker_quit
  /\ ev' = [ev EXCEPT !.histograms = {}]
  /\ calls' = IF pc' = "ready" THEN Append(calls, Returned("stop_collecting", "unit")) ELSE calls
  /\ UNCHANGED <<args, active, refs, reads, copy, edits, lock, wpc, disk, sent, ticks>>

\* A stop_collecting that locks self.ev first and keeps the guard until quit
\* has returned.
stop_collecting_locking ==
  /\ pc = "ready"
  /\ Len(calls) < MaxCalls
  /\ lock = "none"
  /\ MetricsWorker_quit
  /\ lock' = IF pc' = "joining" THEN "caller" ELSE "none"
  /\ calls' = IF pc' = "ready" THEN Append(calls, Returned("stop_collecting", "unit")) ELSE calls
  /\ UNCHANGED <<args, active, refs, reads, copy, edits, ev, wpc, disk, sent, ticks>>

\* MetricsController::stop_collecting: self.mw.quit() and nothing else. The
\* call returns in the same step unless quit blocks in the join.
stop_collecting ==
  /\ pc = "ready"
  /\ Len(calls) < MaxCalls
  /\ MetricsWorker_quit
  /\ calls' = IF pc' = "ready" THEN Append(calls, Returned("stop_collecting", "unit")) ELSE calls
  /\ UNCHANGED <<args, active, refs, reads, copy, edits, ev, lock, wpc, disk, sent, ticks>>

\* MetricsWorker::quit, the join: the caller blocked in quit resumes once the
\* worker thread has exited, and stop_collecting returns.
stop_collecting_join ==
  /\ pc = "joining"
  /\ wpc = "exited"
  /\ pc' = "ready"
  /\ calls' = Append(calls, Returned("stop_collecting", "unit"))
  /\ UNCHANGED <<args, active, refs, reads, copy, edits, ev, mw, lock, wpc, disk, sent, ticks>>

\* The host starts recording a metric: it obtains scoped exclusive access to
\* the histogram set, waiting while another holder has it.
RecordAcquire ==
  /\ pc = "ready"
  /\ lock = "none"
  /\ Cardinality(ev.histograms) < MaxRecords
  /\ lock' = "caller"
  /\ pc' = "recording"
  /\ UNCHANGED <<args, active, refs, reads, copy, edits, ev, mw, wpc, calls, disk, sent, ticks>>

\* The host records the metric inside its critical section and releases the
\* access.
Record ==
  /\ pc = "recording"
  /\ ev' = [ev EXCEPT !.histograms = @ \cup {Cardinality(@) + 1}]
  /\ lock' = "none"
  /\ pc' = "ready"
  /\ UNCHANGED <<args, active, refs, reads, copy, edits, mw, wpc, calls, disk, sent, ticks>>

\* ---------------------------------------------------------- worker thread
\* MetricsWorker::run: Idle -> Running; the periodic loop starts on a thread
\* of its own, at a tick boundary.
MetricsWorker_run ==
  /\ mw.state = "Idle"
  /\ wpc = "none"
  /\ mw' = [mw EXCEPT !.state = "Running"]
  /\ wpc' = "boundary"
  /\ UNCHANGED <<args, active, refs, reads, copy, edits, ev, lock, pc, calls, disk, sent, ticks>>

\* A tick that starts on the histogram set without waiting for the holder of
\* the access to release it.
TickAcquire_unguarded ==
  /\ wpc = "boundary"
  /\ ~mw.quit_sent
  /\ ticks < MaxTicks
  /\ lock' = "worker"
  /\ wpc' = "locked"
  /\ UNCHANGED <<args, active, refs, reads, copy, edits, ev, mw, pc, calls, disk, sent, ticks>>

\* Tick (a): at a tick boundary with no quit signal pending, acquire scoped
\* access to the shared state.
TickAcquire ==
  /\ wpc = "boundary"
  /\ ~mw.quit_sent
  /\ lock = "none"
  /\ ticks < MaxTicks
  /\ lock' = "worker"
  /\ wpc' = "locked"
  /\ UNCHANGED <<args, active, refs, reads, copy, edits, ev, mw, pc, calls, disk, sent, ticks>>

\* Tick (b): persistence write of the current histogram data. On failure the
\* tick is abandoned and nothing in memory or on disk changes.
TickPersist ==
  /\ wpc = "locked"
  /\ \E ok \in BOOLEAN :
       IF ok
         THEN /\ disk' = ev.histograms
              /\ wpc' = "persisted"
              /\ UNCHANGED <<lock, ticks>>
         ELSE /\ disk' = disk
              /\ wpc' = "boundary"
              /\ lock' = "none"
              /\ ticks' = ticks + 1
  /\ UNCHANGED <<args, active, refs, reads, copy, edits, ev, mw, pc, calls, sent>>

\* A transmission step that removes the local data whether or not the server
\* acknowledged it.
TickTransmit_dropping ==
  /\ wpc = "persisted"
  /\ \E ack \in BOOLEAN : sent' = IF ack THEN sent \cup disk ELSE sent
  /\ disk' = {}
  /\ lock' = "none"
  /\ wpc' = "boundary"
  /\ ticks' = ticks + 1
  /\ UNCHANGED <<args, active, refs, reads, copy, edits, ev, mw, pc, calls>>

\* Tick (c), (d): transmission attempt, then release. Only an acknowledgement
\* marks data as sent; a failure leaves memory and disk as they are.
TickTransmit ==
  /\ wpc = "persisted"
  /\ \E ack \in BOOLEAN : sent' = IF ack THEN sent \cup disk ELSE sent
  /\ lock' = "none"
  /\ wpc' = "boundary"
  /\ ticks' = ticks + 1
  /\ UNCHANGED <<args, active, refs, reads, copy, edits, ev, mw, pc, calls, disk>>

\* A worker that acts on the quit signal wherever it is, dropping a tick in
\* progress.
WorkerExit_midtick ==
  /\ wpc \in {"boundary", "locked", "persisted"}
  /\ mw.quit_sent
  /\ mw' = [mw EXCEPT !.state = "Stopped"]
  /\ wpc' = "exited"
  /\ lock' = IF lock = "worker" THEN "none" ELSE lock
  /\ UNCHANGED <<args, active, refs, reads, copy, edits, ev, pc, calls, disk, sent, ticks>>

\* The worker sees the quit signal at a tick boundary and its thread exits
\* (Stopping -> Stopped).
WorkerExit ==
  /\ wpc = "boundary"
  /\ mw.quit_sent
  /\ mw' = [mw EXCEPT !.state = "Stopped"]
  /\ wpc' = "exited"
  /\ UNCHANGED <<args, active, refs, reads, copy, edits, ev, lock, pc, calls, disk, sent, ticks>>

\* -------------------------------------------------------- EventInfo values
\* The host builds an EventInfo of its own with EventInfo::new.
BuildEventInfo ==
  /\ copy = <<>>
  /\ \E a \in [FieldNames -> Strings] :
       copy' = <<EventInfo_new(a.locale, a.os, a.os_version, a.device, a.app_name,
                               a.app_version, a.app_update_channel, a.app_build_id,
                               a.app_platform, a.arch)>>
  /\ UNCHANGED <<args, active, refs, reads, edits, ev, mw, lock, pc, wpc, calls, disk, sent, ticks>>

\* The host calls clone(&self) on its EventInfo and keeps the result beside it.
CloneEventInfo ==
  /\ Len(copy) = 1
  /\ copy' = <<copy[1], EventInfo_clone(copy[1])>>
  /\ UNCHANGED <<args, active, refs, reads, edits, ev, mw, lock, pc, wpc, calls, disk, sent, ticks>>

\* The host assigns to a pub field of one of the two values it owns. Each value
\* owns its Strings, so the assignment reaches that value only.
EditEventInfo ==
  /\ Len(copy) = 2
  /\ edits < MaxEdits
  /\ \E i \in 1..2, f \in FieldNames :
       copy' = [copy EXCEPT ![i] = [@ EXCEPT ![f] = "edited"]]
  /\ edits' = edits + 1
  /\ UNCHANGED <<args, active, refs, reads, ev, mw, lock, pc, wpc, calls, disk, sent, ticks>>

\* ---------------------------------------------------------- specifications
\* The controller as the host drives it through its public API.
Next ==
  \/ start_metrics
  \/ stop_collecting
  \/ RecordAcquire
  \/ Record

Spec == Init /\ [][Next]_vars

\* The controller together with a worker whose run() has been invoked, on the
\* unit tests' controller.
WorkerNext ==
  \/ start_metrics
  \/ stop_collecting
  \/ stop_collecting_join
  \/ RecordAcquire
  \/ Record
  \/ MetricsWorker_run
  \/ TickAcquire
  \/ TickPersist
  \/ TickTransmit
  \/ WorkerExit

WorkerSpec == InitTest /\ [][WorkerNext]_vars

\* EventInfo values built, cloned and edited by the host.
CloneNext ==
  \/ BuildEventInfo
  \/ CloneEventInfo
  \/ EditEventInfo

CloneSpec == InitTest /\ [][CloneNext]_vars

TypeOK ==
  /\ args \in [FieldNames -> STRING]
  /\ active \in BOOLEAN
  /\ ev.histograms \subseteq 1..(MaxRecords + 1)
  /\ mw.state \in WorkerStates
  /\ mw.quit_sent \in BOOLEAN
  /\ lock \in {"none", "caller", "worker"}
  /\ pc \in {"ready", "recording", "joining", "panicked"}
  /\ wpc \in {"none", "boundary", "locked", "persisted", "exited"}
  /\ Len(calls) <= MaxCalls + 1
  /\ disk \subseteq ev.histograms
  /\ sent \subseteq disk
  /\ ticks \in 0..(MaxTicks + 1)
  /\ refs.controller \in STRING
  /\ reads \in 0..MaxCalls
  /\ Len(copy) <= 2
  /\ edits \in 0..(MaxEdits + 1)

\* ------------------------------------------------------------------ claims
\* The position of the latest call that has returned (0: none yet).
Last == Len(calls)

\* No start_metrics call has returned yet.
NeverStarted == \A i \in 1..Len(calls) : calls[i].op # "start_metrics"

\* This step is the return of a stop_collecting call.
StopReturns == calls' = Append(calls, Returned("stop_collecting", "unit"))

\* C1: on a freshly constructed controller, two consecutive start_metrics calls
\* with no stop_collecting between them return true, then false.
C1_StartTwiceTrueThenFalse ==
  (Len(calls) >= 2 /\ calls[1].op = "start_metrics" /\ calls[2].op = "start_metrics")
    => (calls[1].ret = "true" /\ calls[2].ret = "false")

\* C2: when a stop_collecting that follows a start_metrics returns, the worker
\* is Stopped and its thread has exited; no tick happens after that return.
C2_StoppedWhenStopReturns ==
  [][/\ (StopReturns /\ Last >= 1 /\ calls[Last].op = "start_metrics")
          => (mw'.state = "Stopped" /\ wpc' = "exited")
     /\ (Last >= 2 /\ calls[Last].op = "stop_collecting" /\ calls[Last - 1].op = "start_metrics")
          => ticks' = ticks]_vars

\* C3: every field of the EventInfo stored in the shared state equals the value
\* the caller passed to MetricsController::new for the parameter of that name.
C3_ContextFieldsAreTheArguments ==
  \A f \in FieldNames : ev.event_info[f] = args[f]

\* C4: stop_collecting on a controller on which start_metrics was never called
\* returns: the caller is neither left blocked in the join nor panicked.
C4_StopOnFreshReturns ==
  NeverStarted => pc \notin {"joining", "panicked"}

\* C4 witness: the first call on a fresh controller was stop_collecting and it
\* has returned.
C4_Witness ==
  /\ Last >= 1
  /\ calls[1].op = "stop_collecting"
  /\ NeverStarted
  /\ pc = "ready"

\* C5: for all identity strings, the empty string included, the constructed
\* controller's worker is Idle with no thread, and nothing is persisted or
\* transmitted before the first start_metrics.
C5_IdleUntilFirstStart ==
  NeverStarted =>
    /\ mw.state = "Idle"
    /\ wpc = "none"
    /\ ticks = 0
    /\ disk = {}
    /\ sent = {}

\* C5 witness: a controller built from ten empty strings, used (a metric
\* recorded, stop_collecting called) but never started.
C5_Witness ==
  /\ \A f \in FieldNames : args[f] = ""
  /\ NeverStarted
  /\ Last >= 1
  /\ ev.histograms # {}
  /\ mw.state = "Idle"

\* C6: after a start_metrics call that returned true the worker is Running, and
\* the worker is Running only after such a call.
C6_StartMovesIdleToRunning ==
  /\ (Last >= 1 /\ calls[Last].op = "start_metrics" /\ calls[Last].ret = "true")
       => mw.state = "Running"
  /\ mw.state = "Running"
       => \E i \in 1..Last : calls[i].op = "start_metrics" /\ calls[i].ret = "true"

\* C7: when stop_collecting returns, the in-memory histogram set holds nothing
\* but what the last successful flush persisted.
C7_StopDiscardsUnflushed ==
  [][StopReturns => ev'.histograms \subseteq disk']_vars

\* C8: on an opted-out (inactive) controller every start_metrics returns false,
\* the worker stays Idle and no tick occurs.
C8_OptedOutStartFails ==
  ~active =>
    /\ \A i \in 1..Last : calls[i].op = "start_metrics" => calls[i].ret = "false"
    /\ mw.state = "Idle"
    /\ ticks = 0

C10_StoppedIsAbsorbing ==
  [][mw.state = "Stopped"
       => (mw'.state = "Stopped" /\ wpc' = "exited" /\ ticks' = ticks
           /\ disk' = disk /\ sent' = sent)]_vars

\* C10 witness: the worker ticked, was stopped by the one stop_collecting, and
\* start_metrics was called again afterwards; it is still Stopped.
C10_Witness ==
  /\ calls = <<Returned("start_metrics", "true"), Returned("stop_collecting", "unit"),
               Returned("start_metrics", "true")>>
  /\ ticks >= 1
  /\ mw.state = "Stopped"

\* The caller thread is inside its critical section on the histogram set.
CallerHolds == pc = "recording"

\* The worker thread is inside a tick's critical section.
WorkerHolds == wpc \in {"locked", "persisted"}

\* C11: the caller thread and the worker thread never hold access to the
\* histogram set at the same time, each holds the mutex while it is inside its
\* critical section, and the histogram set is mutated (by the caller) and read
\* for a persistence write (by the worker) only by the thread holding the mutex.
C11_HistogramAccessIsExclusive ==
  /\ [](/\ ~(CallerHolds /\ WorkerHolds)
        /\ (CallerHolds => lock = "caller")
        /\ (WorkerHolds => lock = "worker"))
  /\ [][/\ (ev'.histograms # ev.histograms => (CallerHolds /\ lock = "caller"))
        /\ (disk' # disk => (WorkerHolds /\ lock = "worker"))]_vars

\* C11 witness: the worker is inside a tick, holding the mutex, having written
\* metrics the caller recorded earlier, while the caller is outside its
\* critical section.
C11_Witness ==
  /\ wpc = "persisted"
  /\ lock = "worker"
  /\ disk # {}
  /\ pc = "ready"

\* C12: the worker leaves for Stopped only from a tick boundary; while a quit
\* request is pending and a tick is in progress, the next step of the tick is
\* its persistence write or its transmission, never the exit.
C12_QuitSeenOnlyAtTickBoundary ==
  [][/\ (mw.state # "Stopped" /\ mw'.state = "Stopped") => (wpc = "boundary" /\ mw.quit_sent)
     /\ (mw.quit_sent /\ WorkerHolds) => (mw'.state # "Stopped" /\ wpc' # "exited")
     /\ (mw.quit_sent /\ wpc = "locked" /\ wpc' # wpc) => wpc' \in {"persisted", "boundary"}]_vars

\* C12 witness: stop_collecting asked for the quit while the first tick was in
\* progress (the caller is blocked in the join) and the tick's persistence
\* write has completed.
C12_Witness ==
  /\ pc = "joining"
  /\ mw.state = "Stopping"
  /\ wpc = "persisted"
  /\ ticks = 0
  /\ disk # {}

\* The Events allocations referred to by the controller or by a worker.
Instances == {refs.controller} \cup {refs.workers[i] : i \in 1..Len(refs.workers)}

\* C13: there is exactly one shared-state instance, at most one worker exists,
\* and every worker's reference denotes the instance the controller refers to.
C13_OneSharedStateOneWorker ==
  /\ Cardinality(Instances) = 1
  /\ Len(refs.workers) <= 1
  /\ \A i \in 1..Len(refs.workers) : refs.workers[i] = refs.controller

\* C13 witness: start_metrics, stop_collecting and start_metrics again have
\* returned and the one worker built by new is still the only one.
C13_Witness ==
  /\ Last >= 3
  /\ calls[1].op = "start_metrics"
  /\ calls[2].op = "stop_collecting"
  /\ calls[3].op = "start_metrics"
  /\ Len(refs.workers) = 1
  /\ refs.workers[1] = refs.controller

\* A start_metrics call has returned true.
Started == \E i \in 1..Last : calls[i].op = "start_metrics" /\ calls[i].ret = "true"

\* C14: once start_metrics has returned true the persistence collaborator's
\* read has been called exactly once, and no tick happens before that read.
C14_StartReadsOnceBeforeFirstTick ==
  /\ Started => reads = 1
  /\ ticks > 0 => reads = 1

\* C15: no step (start_metrics, stop_collecting, recording, a worker tick, the
\* worker's exit) changes the EventInfo held by the shared state.
C15_EventContextNeverMutated ==
  [][ev'.event_info = ev.event_info]_vars

\* C15 witness: after start_metrics, stop_collecting and at least one worker
\* tick, the shared state still holds the context new built from the unit
\* tests' arguments.
C15_Witness ==
  /\ Started
  /\ \E i \in 1..Last : calls[i].op = "stop_collecting"
  /\ ticks >= 1
  /\ mw.state = "Stopped"
  /\ ev.event_info.locale = "en-us"
  /\ ev.event_info.os = "linux"

\* C16: as long as no transmission has been acknowledged (every attempt so far
\* failed), no step removes persisted data, and the transmission step of a tick
\* ends the tick at the boundary with the worker's state and the disk as they
\* were.
C16_FailedTransmissionKeepsDataAndLoop ==
  [][sent' = {} =>
       /\ disk \subseteq disk'
       /\ (wpc = "persisted" /\ wpc' # wpc)
            => (wpc' = "boundary" /\ mw'.state = mw.state /\ disk' = disk)]_vars

\* C16 witness: two ticks are over, data was persisted, the transmission that
\* followed failed, and the worker is still Running at a tick boundary.
C16_Witness ==
  /\ ticks >= 2
  /\ disk # {}
  /\ sent = {}
  /\ wpc = "boundary"
  /\ mw.state = "Running"

\* C17: the value clone returns equals the original in all ten fields and the
\* call leaves the original as it was; afterwards a change to one of the two
\* values leaves the other unchanged.
C17_CloneIsEqualAndIndependent ==
  [][/\ (Len(copy) = 1 /\ Len(copy') = 2)
          => (/\ \A f \in FieldNames : copy'[2][f] = copy[1][f]
              /\ copy'[1] = copy[1])
     /\ (Len(copy) = 2 /\ copy'[2] # copy[2]) => copy'[1] = copy[1]
     /\ (Len(copy) = 2 /\ copy'[1] # copy[1]) => copy'[2] = copy[2]]_vars

\* C17 witness: a value with differing os and os_version was cloned, the clone
\* was then edited, and the original still has its fields.
C17_Witness ==
  /\ Len(copy) = 2
  /\ edits >= 1
  /\ copy[2].os = "edited"
  /\ copy[1].os = ""
  /\ copy[1].os_version = "x"
  /\ copy[2].os_version = "x"

\* A step of the worker thread, or the join that ends the caller's wait.
WorkerOrJoinStep == TickPersist \/ TickTransmit \/ WorkerExit \/ stop_collecting_join

\* C18: the caller never holds the shared-state mutex while it waits in the
\* join, no start_metrics or stop_collecting step changes the mutex's holder,
\* and whenever the caller waits, the worker (or the join) can take a step:
\* stop_collecting is never deadlocked against a tick.
C18_NoLockHeldWhileJoining ==
  /\ [](pc = "joining" => (lock # "caller" /\ ENABLED WorkerOrJoinStep))
  /\ [][(calls' # calls \/ (pc = "ready" /\ pc' = "joining")) => lock' = lock]_vars

\* C18 witness: the caller is blocked in stop_collecting's join while the
\* worker is inside a tick, holding the mutex it needs to finish it.
C18_Witness ==
  /\ pc = "joining"
  /\ wpc = "locked"
  /\ lock = "worker"
  /\ mw.quit_sent

====
